---- MODULE Spec2Model ----
(***************************************************************************)
(* Model of plugins/yaml_edit.py: the key-path parser (parse_key_path),    *)
(* the structural patcher (ensure_list_size, set_nested_value) and the     *)
(* module entry point (main) that loads the YAML file, applies the         *)
(* changes, compares and writes.                                           *)
(*                                                                         *)
(* Strings are sequences of one-character strings.  A document node is a   *)
(* record:                                                                 *)
(*   [kind |-> "scalar", v]          a leaf; v = "None" is Python's None   *)
(*   [kind |-> "dict", cls, m]       m maps keys (strings) to nodes        *)
(*   [kind |-> "list", cls, items]   items is a sequence of nodes          *)
(* cls is type(node).__name__: "dict"/"list" for the containers the module *)
(* itself creates (and for values of the changes), "CommentedMap" /        *)
(* "CommentedSeq" for the containers ruamel.yaml's loader returns.         *)
(* Python's dict equality ignores insertion order, and the patcher only    *)
(* ever appends keys, so a dict is modelled by its key->value function.    *)
(*                                                                         *)
(* File reads and writes are taken to succeed (the except branches around  *)
(* open/load/dump are not modelled).                                       *)
(***************************************************************************)
EXTENDS Integers, Sequences, FiniteSets, TLC

VARIABLES
    file,           \* content of the YAML file at `path`, or Absent
    backup_file,    \* content of the backup made by module.backup_local, or Absent
    original_data,  \* main: original_data
    updated_data,   \* main: updated_data
    changes,        \* main: module.params['changes'], as the sequence changes.items()
    i,              \* position of the for loop of main in changes (1-based)
    pc,             \* "idle", "apply", "done", "failed" (main); "parse", "parsed" (parser alone)
    result,         \* what exit_json / fail_json reported
    runs,           \* number of invocations of the module so far
    repeat,         \* this run re-applies the changes to the document the previous run produced
    key_path,       \* the key path last handed to parse_key_path
    segments        \* what parse_key_path returned for it

vars == <<file, backup_file, original_data, updated_data, changes, i, pc, result,
          runs, repeat, key_path, segments>>

(***************************************************************************)
(* Bounds                                                                  *)
(***************************************************************************)
MaxEdits == 2
MaxRuns == 2
MaxLen == 5

(***************************************************************************)
(* Strings and characters                                                  *)
(***************************************************************************)
DOT == "."
LBR == "["
RBR == "]"
DQ == "\""
SQ == "'"
SP == " "

Digits == {"0", "1", "2", "3", "4", "5", "6", "7", "8", "9"}

DigitVal(c) ==
    CASE c = "0" -> 0 [] c = "1" -> 1 [] c = "2" -> 2 [] c = "3" -> 3 [] c = "4" -> 4
      [] c = "5" -> 5 [] c = "6" -> 6 [] c = "7" -> 7 [] c = "8" -> 8 [] c = "9" -> 9

RECURSIVE LStrip(_, _)
LStrip(s, c) == IF s # <<>> /\ Head(s) = c THEN LStrip(Tail(s), c) ELSE s

RECURSIVE RStrip(_, _)
RStrip(s, c) ==
    IF s # <<>> /\ s[Len(s)] = c THEN RStrip(SubSeq(s, 1, Len(s) - 1), c) ELSE s

\* str.strip(c) for a one-character argument; str.strip() when c is the blank
Strip(s, c) == RStrip(LStrip(s, c), c)

\* the text of an int literal without its sign: digits, single underscores between digits
IsDigits(s) ==
    /\ s # <<>>
    /\ s[1] \in Digits
    /\ s[Len(s)] \in Digits
    /\ \A k \in 1..Len(s) : s[k] \in Digits \cup {"_"}
    /\ \A k \in 1..(Len(s) - 1) : ~(s[k] = "_" /\ s[k + 1] = "_")

Unsigned(s) == IF s # <<>> /\ Head(s) \in {"-", "+"} THEN Tail(s) ELSE s

\* int(s) does not raise ValueError (s is already stripped of blanks)
IsInt(s) == IsDigits(Unsigned(s))

RECURSIVE DigitsVal(_, _)
DigitsVal(s, acc) ==
    IF s = <<>> THEN acc
    ELSE IF Head(s) = "_" THEN DigitsVal(Tail(s), acc)
    ELSE DigitsVal(Tail(s), 10 * acc + DigitVal(Head(s)))

\* int(s)
IntVal(s) ==
    IF Head(s) = "-" THEN 0 - DigitsVal(Tail(s), 0) ELSE DigitsVal(Unsigned(s), 0)

(***************************************************************************)
(* parse_key_path                                                          *)
(***************************************************************************)
\* a segment: a str (dictionary key) or an int (list index)
StrSeg(s) == [kind |-> "str", key |-> s]
IntSeg(n) == [kind |-> "int", index |-> n]

\* lines 124-131: the segment a closing bracket appends
BracketSegment(current_segment) ==
    LET bracket_content == Strip(Strip(Strip(current_segment, DQ), SQ), SP)
    IN  IF IsInt(bracket_content) THEN IntSeg(IntVal(bracket_content))
        ELSE StrSeg(bracket_content)

\* lines 112-113, 117-118, 138-139: append the current segment if any
Flush(segs, current_segment) ==
    IF current_segment # <<>> THEN Append(segs, StrSeg(current_segment)) ELSE segs

\* ParseLoop with line 110 testing the dot alone: a dot splits inside brackets too
RECURSIVE ParseLoop_dot(_, _, _, _, _)
ParseLoop_dot(path, k, segs, current_segment, in_brackets) ==
    IF k > Len(path) THEN Flush(segs, current_segment)
    ELSE LET char == path[k] IN
         IF char = DOT
         THEN ParseLoop_dot(path, k + 1, Flush(segs, current_segment), <<>>, in_brackets)
         ELSE IF char = LBR
         THEN ParseLoop_dot(path, k + 1, Flush(segs, current_segment), <<>>, TRUE)
         ELSE IF char = RBR
         THEN ParseLoop_dot(path, k + 1, Append(segs, BracketSegment(current_segment)),
                            <<>>, FALSE)
         ELSE ParseLoop_dot(path, k + 1, segs, Append(current_segment, char), in_brackets)

\* the while loop of lines 107-135 followed by lines 138-141
RECURSIVE ParseLoop(_, _, _, _, _)
ParseLoop(path, k, segs, current_segment, in_brackets) ==
    IF k > Len(path) THEN Flush(segs, current_segment)
    ELSE LET char == path[k] IN
         IF char = DOT /\ ~in_brackets
         THEN ParseLoop(path, k + 1, Flush(segs, current_segment), <<>>, in_brackets)
         ELSE IF char = LBR
         THEN ParseLoop(path, k + 1, Flush(segs, current_segment), <<>>, TRUE)
         ELSE IF char = RBR
         THEN ParseLoop(path, k + 1, Append(segs, BracketSegment(current_segment)),
                        <<>>, FALSE)
         ELSE ParseLoop(path, k + 1, segs, Append(current_segment, char), in_brackets)

parse_key_path(path) == ParseLoop(path, 1, <<>>, <<>>, FALSE)

(***************************************************************************)
(* Document nodes                                                          *)
(***************************************************************************)
Scalar(s) == [kind |-> "scalar", v |-> s]
None == Scalar("None")
Absent == [kind |-> "absent"]

\* {} and [] as the module writes them (lines 171, 177, 186, 190, 237, 243)
NewDict == [kind |-> "dict", cls |-> "dict", m |-> <<>>]
NewList == [kind |-> "list", cls |-> "list", items |-> <<>>]

\* what yaml.load returns for a mapping / a sequence
CommentedMap(f) == [kind |-> "dict", cls |-> "CommentedMap", m |-> f]
CommentedSeq(q) == [kind |-> "list", cls |-> "CommentedSeq", items |-> q]

\* type(ref).__name__
TypeName(ref) ==
    IF ref.kind \in {"dict", "list"} THEN ref.cls
    ELSE IF ref = None THEN "NoneType" ELSE "str"

\* len(ref) of a container
Size(ref) == IF ref.kind = "dict" THEN Cardinality(DOMAIN ref.m) ELSE Len(ref.items)

\* the node with every container of the built-in class: == of Python compares
\* a CommentedMap with a dict, and a CommentedSeq with a list, by content
RECURSIVE Plain(_)
Plain(n) ==
    IF n.kind = "dict"
    THEN [kind |-> "dict", cls |-> "dict", m |-> [k \in DOMAIN n.m |-> Plain(n.m[k])]]
    ELSE IF n.kind = "list"
    THEN [kind |-> "list", cls |-> "list",
          items |-> [k \in 1..Len(n.items) |-> Plain(n.items[k])]]
    ELSE n

\* a == b of Python on two documents
PyEq(a, b) == Plain(a) = Plain(b)

\* what yaml.load returns for a document that yaml.dump wrote (lines 241, 273)
RECURSIVE AsLoaded(_)
AsLoaded(n) ==
    IF n.kind = "dict"
    THEN CommentedMap([k \in DOMAIN n.m |-> AsLoaded(n.m[k])])
    ELSE IF n.kind = "list"
    THEN CommentedSeq([k \in 1..Len(n.items) |-> AsLoaded(n.items[k])])
    ELSE n

\* copy.deepcopy (line 251): an equal tree of the same classes sharing nothing
deepcopy(n) == n

(***************************************************************************)
(* ensure_list_size and set_nested_value                                   *)
(***************************************************************************)
\* lines 148-149, on the items of lst
RECURSIVE ensure_list_size(_, _)
ensure_list_size(lst, index) ==
    IF Len(lst) <= index THEN ensure_list_size(Append(lst, None), index) ELSE lst

\* lst[index] of Python: the 1-based position, 0 when it raises IndexError
Pos(lst, index) ==
    IF index >= 0
    THEN (IF index < Len(lst) THEN index + 1 ELSE 0)
    ELSE (IF 0 - index <= Len(lst) THEN Len(lst) + index + 1 ELSE 0)

\* the outcome of set_nested_value: data is the tree the caller's name refers to
Ok(d) == [ok |-> TRUE, data |-> d, error |-> "none"]
\* module.fail_json called by set_nested_value (exits the process)
TypeConflict == [ok |-> FALSE, data |-> None, error |-> "fail_json"]
\* an exception raised inside set_nested_value (caught at line 257)
IndexError == [ok |-> FALSE, data |-> None, error |-> "IndexError"]

\* lines 171 and 186 bind the local name ref to a new container: the document
\* keeps the old one, and what follows edits a tree the document does not hold
Rebound(r, ref) == IF r.ok THEN Ok(ref) ELSE r

\* Final without the check of lines 203-205: a str segment on a node that is
\* no dict returns without failing
Final_nocheck(ref, last_seg, value) ==
    IF last_seg.kind = "int"
    THEN IF ref.kind # "list" THEN TypeConflict
         ELSE LET lst == ensure_list_size(ref.items, last_seg.index)
                  p == Pos(lst, last_seg.index)
              IN  IF p = 0 THEN IndexError
                  ELSE Ok([ref EXCEPT !.items = [lst EXCEPT ![p] = value]])
    ELSE IF ref.kind # "dict" THEN Ok(ref)
         ELSE Ok([ref EXCEPT !.m =
                    [k \in DOMAIN ref.m \cup {last_seg.key} |->
                        IF k = last_seg.key THEN value ELSE ref.m[k]]])

\* lines 193-206
Final(ref, last_seg, value) ==
    IF last_seg.kind = "int"
    THEN IF ref.kind # "list" THEN TypeConflict
         ELSE LET lst == ensure_list_size(ref.items, last_seg.index)
                  p == Pos(lst, last_seg.index)
              IN  IF p = 0 THEN IndexError
                  ELSE Ok([ref EXCEPT !.items = [lst EXCEPT ![p] = value]])
    ELSE IF ref.kind # "dict" THEN TypeConflict
         ELSE Ok([ref EXCEPT !.m =
                    [k \in DOMAIN ref.m \cup {last_seg.key} |->
                        IF k = last_seg.key THEN value ELSE ref.m[k]]])

RECURSIVE Walk(_, _, _)
RECURSIVE ListStep(_, _, _, _)
RECURSIVE DictStep(_, _, _, _)

\* lines 174-178 on the list ref, then the rest of the path from ref[seg]
ListStep(ref, seg, rest, value) ==
    LET lst == ensure_list_size(ref.items, seg)
        p == Pos(lst, seg)
    IN  IF p = 0 THEN IndexError
        ELSE LET child == IF lst[p] = None THEN NewDict ELSE lst[p]
                 r == Walk(child, rest, value)
             IN  IF r.ok THEN Ok([ref EXCEPT !.items = [lst EXCEPT ![p] = r.data]])
                 ELSE r

\* lines 189-191 on the dict ref, then the rest of the path from ref[seg]
DictStep(ref, seg, rest, value) ==
    LET child == IF seg \in DOMAIN ref.m THEN ref.m[seg] ELSE NewDict
        r == Walk(child, rest, value)
    IN  IF r.ok
        THEN Ok([ref EXCEPT !.m =
                    [k \in DOMAIN ref.m \cup {seg} |-> IF k = seg THEN r.data ELSE ref.m[k]]])
        ELSE r

\* lines 166-173: the list to use at an int segment
ListAt(ref, seg, rest, value) ==
    IF ref.kind = "list" THEN ListStep(ref, seg, rest, value)
    ELSE IF TypeName(ref) = "dict" /\ Size(ref) = 0
    THEN Rebound(ListStep(NewList, seg, rest, value), ref)
    ELSE TypeConflict

\* lines 181-188: the dict to use at a str segment
DictAt(ref, seg, rest, value) ==
    IF ref.kind = "dict" THEN DictStep(ref, seg, rest, value)
    ELSE IF TypeName(ref) = "list" /\ Size(ref) = 0
    THEN Rebound(DictStep(NewDict, seg, rest, value), ref)
    ELSE TypeConflict

\* lines 163-206 from the node ref with the segments segs still to go
Walk(ref, segs, value) ==
    IF Len(segs) = 1 THEN Final(ref, segs[1], value)
    ELSE LET seg == Head(segs) IN
         IF seg.kind = "int" THEN ListAt(ref, seg.index, Tail(segs), value)
         ELSE DictAt(ref, seg.key, Tail(segs), value)

\* lines 161-206; segments[-1] of an empty list raises IndexError (line 193)
set_nested_value(data, path, value) ==
    LET segs == parse_key_path(path)
    IN  IF segs = <<>> THEN IndexError ELSE Walk(data, segs, value)

(***************************************************************************)
(* Inputs: key paths, values, changes, files                               *)
(***************************************************************************)
P_empty == <<>>
P_a == <<"a">>
P_x == <<"x">>
P_a_b == <<"a", ".", "b">>
P_a0 == <<"a", "[", "0", "]">>
P_a1 == <<"a", "[", "1", "]">>
P_a0_b == <<"a", "[", "0", "]", ".", "b">>
P_0_a == <<"[", "0", "]", ".", "a">>
P_0 == <<"[", "0", "]">>
P_a_neg2 == <<"a", "[", "-", "2", "]">>
\* serve.vllm.vllm_args[0] and serve.vllm.vllm_args[1] (EXAMPLES, lines 62-63)
P_args0 == <<"s", "e", "r", "v", "e", ".", "v", "l", "l", "m", ".",
             "v", "l", "l", "m", "_", "a", "r", "g", "s", "[", "0", "]">>
P_args1 == <<"s", "e", "r", "v", "e", ".", "v", "l", "l", "m", ".",
             "v", "l", "l", "m", "_", "a", "r", "g", "s", "[", "1", "]">>

Edit(p, v) == [path |-> p, value |-> v]

Edits ==
    { Edit(P_a, Scalar("1")), Edit(P_a, Scalar("2")), Edit(P_a, NewList),
      Edit(P_x, Scalar("1")),
      Edit(P_a_b, Scalar("1")),
      Edit(P_a0, Scalar("1")), Edit(P_a1, Scalar("2")),
      Edit(P_a0_b, Scalar("1")),
      Edit(P_0_a, Scalar("1")), Edit(P_0, Scalar("1")),
      Edit(P_a_neg2, Scalar("1")),
      Edit(P_empty, Scalar("1")),
      Edit(P_args0, Scalar("--tensor-parallel-size")), Edit(P_args1, Scalar("5")) }

\* changes.items(): the keys of a dict are distinct; any order
Changesets ==
    { cs \in UNION { [1..n -> Edits] : n \in 0..MaxEdits } :
        \A j, k \in 1..Len(cs) : j # k => cs[j].path # cs[k].path }

\* what the file at `path` may hold before the first invocation
Files ==
    { Absent, None, CommentedMap(<<>>), CommentedSeq(<<>>),
      CommentedMap(P_a :> Scalar("1")),
      CommentedMap(P_a :> CommentedSeq(<<Scalar("1"), Scalar("2")>>)),
      CommentedMap(P_a :> CommentedSeq(<<>>)),
      CommentedMap(P_a :> CommentedMap(P_a :> Scalar("1") @@ <<"b">> :> Scalar("2"))),
      CommentedSeq(<<Scalar("1"), Scalar("2"), Scalar("3")>>) }

(***************************************************************************)
(* main                                                                    *)
(***************************************************************************)
\* lines 237-249: the loaded document, {} for a missing or empty file
Load(f) == IF f = Absent \/ f = None THEN NewDict ELSE f

\* line 261 with a comparison that also compares the classes of the containers
HasChanges_strict(updated, original) == updated # original

\* line 261
HasChanges(updated, original) == ~PyEq(updated, original)

NoResult == [failed |-> FALSE, changed |-> FALSE]
ExitJson(c) == [failed |-> FALSE, changed |-> c]
FailJson == [failed |-> TRUE, changed |-> FALSE]

Init ==
    /\ file \in Files
    /\ backup_file = Absent
    /\ original_data = NewDict
    /\ updated_data = NewDict
    /\ changes = <<>>
    /\ i = 1
    /\ pc = "idle"
    /\ result = NoResult
    /\ runs = 0
    /\ repeat = FALSE
    /\ key_path = <<>>
    /\ segments = <<>>

\* lines 210-251 for the invocation that is starting
Start(cs) ==
    /\ runs < MaxRuns
    /\ runs' = runs + 1
    /\ changes' = cs
    /\ original_data' = Load(file)
    /\ updated_data' = deepcopy(Load(file))
    /\ i' = 1
    /\ pc' = "apply"
    /\ result' = NoResult
    /\ key_path' = <<>>
    /\ segments' = <<>>
    /\ UNCHANGED <<file, backup_file>>

\* the task is run for the first time, with the given changes
Invoke(cs) ==
    /\ pc = "idle"
    /\ repeat' = FALSE
    /\ Start(cs)

\* the same task is run again after the process of the previous run has exited
Rerun ==
    /\ pc \in {"done", "failed"}
    /\ repeat' = (pc = "done" /\ PyEq(Load(file), updated_data))
    /\ Start(changes)

\* lines 254-256: one iteration of the for loop that returns normally
ApplyChange ==
    /\ pc = "apply"
    /\ i <= Len(changes)
    /\ LET r == set_nested_value(updated_data, changes[i].path, changes[i].value)
       IN  /\ r.ok
           /\ updated_data' = r.data
    /\ i' = i + 1
    /\ key_path' = changes[i].path
    /\ segments' = parse_key_path(changes[i].path)
    /\ UNCHANGED <<file, backup_file, original_data, changes, pc, result, runs, repeat>>

\* lines 173, 188, 198, 205 and 257-258: fail_json ends the process; the
\* partly edited updated_data is lost with it
FailChange ==
    /\ pc = "apply"
    /\ i <= Len(changes)
    /\ ~set_nested_value(updated_data, changes[i].path, changes[i].value).ok
    /\ pc' = "failed"
    /\ result' = FailJson
    /\ key_path' = changes[i].path
    /\ segments' = parse_key_path(changes[i].path)
    /\ UNCHANGED <<file, backup_file, original_data, updated_data, changes, i, runs, repeat>>

\* lines 278-280
ExitUnchanged ==
    /\ pc = "apply"
    /\ i > Len(changes)
    /\ ~HasChanges(updated_data, original_data)
    /\ pc' = "done"
    /\ result' = ExitJson(FALSE)
    /\ UNCHANGED <<file, backup_file, original_data, updated_data, changes, i, runs,
                   repeat, key_path, segments>>

\* lines 261-264, module.check_mode being true
ExitCheckMode ==
    /\ pc = "apply"
    /\ i > Len(changes)
    /\ HasChanges(updated_data, original_data)
    /\ pc' = "done"
    /\ result' = ExitJson(TRUE)
    /\ UNCHANGED <<file, backup_file, original_data, updated_data, changes, i, runs,
                   repeat, key_path, segments>>

\* lines 261-277, module.check_mode being false
WriteFile(backup) ==
    /\ pc = "apply"
    /\ i > Len(changes)
    /\ HasChanges(updated_data, original_data)
    /\ backup_file' = IF backup /\ file # Absent THEN file ELSE backup_file
    /\ file' = AsLoaded(updated_data)
    /\ pc' = "done"
    /\ result' = ExitJson(TRUE)
    /\ UNCHANGED <<original_data, updated_data, changes, i, runs, repeat, key_path,
                   segments>>

Next ==
    \/ \E cs \in Changesets : Invoke(cs)
    \/ Rerun
    \/ ApplyChange
    \/ FailChange
    \/ ExitUnchanged
    \/ ExitCheckMode
    \/ \E backup \in BOOLEAN : WriteFile(backup)

Spec == Init /\ [][Next]_vars

(***************************************************************************)
(* parse_key_path alone, on every string over Alphabet up to MaxLen        *)
(***************************************************************************)
Alphabet == {"a", DOT, LBR, RBR, DQ, SQ, SP, "-", "_", "1"}

KeyPaths == UNION { [1..n -> Alphabet] : n \in 0..MaxLen }

InitParse ==
    /\ key_path \in KeyPaths
    /\ segments = <<>>
    /\ pc = "parse"
    /\ file = Absent
    /\ backup_file = Absent
    /\ original_data = NewDict
    /\ updated_data = NewDict
    /\ changes = <<>>
    /\ i = 1
    /\ result = NoResult
    /\ runs = 0
    /\ repeat = FALSE

ParseKeyPath ==
    /\ pc = "parse"
    /\ segments' = parse_key_path(key_path)
    /\ pc' = "parsed"
    /\ UNCHANGED <<file, backup_file, original_data, updated_data, changes, i, result,
                   runs, repeat, key_path>>

NextParse == ParseKeyPath

SpecParse == InitParse /\ [][NextParse]_vars

(***************************************************************************)
(* Properties                                                              *)
(***************************************************************************)
\* an edit of the current run has been handed to set_nested_value
EditTried == pc = "failed" \/ (pc \in {"apply", "done"} /\ i > 1)
\* the last edit handed to set_nested_value returned without failing
EditDone == pc = "apply" /\ i > 1
\* the first edit of the run has been tried and no other
FirstEditTried == (pc = "failed" /\ i = 1) \/ (pc = "apply" /\ i = 2)

\* the node reached from node along segs, Absent if a segment does not resolve
RECURSIVE Resolve(_, _)
Resolve(node, segs) ==
    IF segs = <<>> THEN node
    ELSE LET seg == Head(segs) IN
         IF seg.kind = "str"
         THEN IF node.kind = "dict" /\ seg.key \in DOMAIN node.m
              THEN Resolve(node.m[seg.key], Tail(segs)) ELSE Absent
         ELSE IF node.kind = "list" /\ Pos(node.items, seg.index) # 0
              THEN Resolve(node.items[Pos(node.items, seg.index)], Tail(segs)) ELSE Absent

\* deep structural equality of two documents
RECURSIVE StructEq(_, _)
StructEq(a, b) ==
    /\ a.kind = b.kind
    /\ a.kind = "scalar" => a = b
    /\ a.kind = "dict" =>
          /\ DOMAIN a.m = DOMAIN b.m
          /\ \A k \in DOMAIN a.m : StructEq(a.m[k], b.m[k])
    /\ a.kind = "list" =>
          /\ Len(a.items) = Len(b.items)
          /\ \A k \in 1..Len(a.items) : StructEq(a.items[k], b.items[k])

Dict1(k, v) == [kind |-> "dict", cls |-> "dict", m |-> (k :> v)]
List2(v, w) == [kind |-> "list", cls |-> "list", items |-> <<v, w>>]

\* C1: whenever set_nested_value returns without failing, resolving the parsed
\* path segment by segment from the document root reaches the value
C1_EditVisibleFromRoot ==
    EditDone => StructEq(Resolve(updated_data, segments), changes[i - 1].value)

\* C2: from the empty map, serve.vllm.vllm_args[0] = "--tensor-parallel-size"
\* then serve.vllm.vllm_args[1] = "5" succeeds with the document
\* {serve: {vllm: {vllm_args: ["--tensor-parallel-size", "5"]}}} and changed=true
C2_Changes ==
    <<Edit(P_args0, Scalar("--tensor-parallel-size")), Edit(P_args1, Scalar("5"))>>
C2_Expected ==
    Dict1(<<"s", "e", "r", "v", "e">>,
          Dict1(<<"v", "l", "l", "m">>,
                Dict1(<<"v", "l", "l", "m", "_", "a", "r", "g", "s">>,
                      List2(Scalar("--tensor-parallel-size"), Scalar("5")))))
C2_EndToEnd ==
    (changes = C2_Changes /\ StructEq(original_data, NewDict) /\ pc \in {"done", "failed"})
    => (pc = "done" /\ result.changed /\ StructEq(updated_data, C2_Expected))

\* C3: a path beginning with index 0 patched into the empty map {} makes the
\* root a one-element sequence, and the key x patched into the empty sequence
\* [] makes it the map {x: value}
C3_EmptyContainerCoercion ==
    /\ (FirstEditTried /\ StructEq(original_data, NewDict)
          /\ segments # <<>> /\ segments[1] = IntSeg(0))
       => (pc = "apply" /\ updated_data.kind = "list" /\ Len(updated_data.items) = 1)
    /\ (FirstEditTried /\ StructEq(original_data, NewList) /\ segments = <<StrSeg(P_x)>>)
       => (pc = "apply" /\ StructEq(updated_data, Dict1(P_x, changes[1].value)))

\* the node is a scalar or a non-empty container of the other kind than the
\* segment needs, here or further along the path through existing nodes
RECURSIVE HitsConflict(_, _)
HitsConflict(node, segs) ==
    LET seg == Head(segs)
        need == IF seg.kind = "int" THEN "list" ELSE "dict"
    IN  IF segs = <<>> THEN FALSE
        ELSE IF node.kind = "scalar" THEN TRUE
        ELSE IF node.kind # need THEN Size(node) > 0
        ELSE IF Len(segs) = 1 THEN FALSE
        ELSE IF seg.kind = "str"
        THEN seg.key \in DOMAIN node.m /\ HitsConflict(node.m[seg.key], Tail(segs))
        ELSE /\ seg.index >= 0
             /\ seg.index < Len(node.items)
             /\ node.items[seg.index + 1] # None
             /\ HitsConflict(node.items[seg.index + 1], Tail(segs))

NextEditConflicts ==
    /\ pc = "apply"
    /\ i <= Len(changes)
    /\ HitsConflict(updated_data, parse_key_path(changes[i].path))

\* C4: an edit that hits a type conflict ends the run in the failed state at
\* that edit; no later edit is applied, the original document and the file
\* stay as they were, and the run never reports success
C4_FailFast ==
    [][ /\ NextEditConflicts =>
            /\ pc' = "failed"
            /\ result'.failed /\ ~result'.changed
            /\ i' = i
            /\ file' = file /\ backup_file' = backup_file
            /\ original_data' = original_data
        /\ pc = "apply" /\ i <= Len(changes) =>
            /\ file' = file /\ backup_file' = backup_file
            /\ original_data' = original_data
        /\ pc = "failed" =>
            /\ result.failed /\ ~result.changed
            /\ original_data = Load(file)
            /\ file' = file /\ backup_file' = backup_file
            /\ pc' # "done"
            /\ pc' = "apply" => (runs' = runs + 1 /\ i' = 1)
      ]_vars

C4_Witness ==
    /\ pc = "failed"
    /\ i = 2
    /\ HitsConflict(updated_data, segments)
    /\ ~StructEq(updated_data, original_data)

\* C5: a changeset whose first application succeeds, applied again to the
\* resulting document, succeeds, yields the same document and changed=false
C5_Idempotent ==
    (repeat /\ pc \in {"done", "failed"})
    => (pc = "done" /\ ~result.changed /\ StructEq(updated_data, original_data))

\* the nodes along the traversal segments have the kinds the segments need
RECURSIVE ShapeOk(_, _)
ShapeOk(node, segs) ==
    IF Len(segs) <= 1 THEN TRUE
    ELSE LET seg == Head(segs) IN
         IF seg.kind = "str"
         THEN /\ node.kind = "dict"
              /\ seg.key \in DOMAIN node.m
              /\ ShapeOk(node.m[seg.key], Tail(segs))
         ELSE /\ node.kind = "list"
              /\ Len(node.items) >= seg.index + 1
              /\ Pos(node.items, seg.index) # 0
              /\ ShapeOk(node.items[Pos(node.items, seg.index)], Tail(segs))

\* C6: after a successful edit, the node at every traversal segment that is a
\* key is a map containing the key, and the node at every traversal segment
\* that is an index i is a sequence of length at least i+1
C6_ShapeAfterPatch == EditDone => ShapeOk(updated_data, segments)

C8_PathNonEmpty == EditTried => Len(segments) >= 1

\* C9: every index segment parse_key_path emits for the patcher is non-negative
C9_IndexNonNegative ==
    EditTried => \A k \in 1..Len(segments) :
                    segments[k].kind = "int" => segments[k].index >= 0

\* the text parses as a base-10 integer: an optional sign, then decimal digits,
\* where an underscore may stand between two digits (int("1_0") is 10)
IsBase10(s) ==
    LET d == IF s # <<>> /\ Head(s) \in {"-", "+"} THEN Tail(s) ELSE s
    IN  /\ d # <<>>
        /\ \A k \in 1..Len(d) :
              \/ d[k] \in Digits
              \/ /\ d[k] = "_"
                 /\ 1 < k /\ k < Len(d)
                 /\ d[k - 1] \in Digits /\ d[k + 1] \in Digits

\* the one segment a bracket content stands for
Bracketed(content) ==
    LET stripped == Strip(Strip(Strip(content, DQ), SQ), SP)
    IN  IF IsBase10(stripped)
        THEN IntSeg(IF Head(stripped) = "-" THEN 0 - DigitsVal(Tail(stripped), 0)
                    ELSE IF Head(stripped) = "+" THEN DigitsVal(Tail(stripped), 0)
                    ELSE DigitsVal(stripped, 0))
        ELSE StrSeg(stripped)

====
